---- MODULE Spec2Model ----
(***************************************************************************)
(* mcbackend, backends/null.py: the NullBackend / NullRun / NullChain      *)
(* family.  A NullChain discards draws, counts them, and keeps the sampler *)
(* stats in one numpy array per declared stat.                             *)
(*                                                                         *)
(* Python values are modelled as one-field records, so that values of      *)
(* different Python types can be compared:                                 *)
(*    None          [none |-> TRUE]                                        *)
(*    a number      [num |-> i]                                            *)
(*    a string      [str |-> s]                                            *)
(* A dict is a function whose DOMAIN is the set of its keys; a kwargs-free *)
(* mapping literal {"a": v} is the record [a |-> v].                       *)
(***************************************************************************)
EXTENDS Integers, Sequences, FiniteSets, TLC

VARIABLES
    heap,       \* what numpy.empty finds in freshly allocated memory
    settings,   \* NullBackend._settings["preallocate"]
    runs,       \* the NullRun objects the backend has produced, in order
    inited,     \* history: per run, the chain_number of each init_chain call
    appended,   \* history: per run, per chain, the stats argument of each append call
    result      \* the outcome of the last call: what it returned or raised

vars == <<heap, settings, runs, inited, appended, result>>

-----------------------------------------------------------------------------
(* Bounds of the exploration.                                              *)

MaxPreallocate == 1     \* preallocate is drawn from 0..MaxPreallocate
MaxDraws == 2           \* appends per chain in Spec; indices asked for are -1..MaxDraws
MaxRuns == 2            \* runs of the backend in SpecRuns
MaxChains == 2          \* chains of the backend, over all its runs, in SpecRuns
MaxRunDraws == 1        \* appends of the backend, over all its chains, in SpecRuns
MaxExtraDraws == 2      \* appends beyond the 22 of test_growing in SpecGrowing

-----------------------------------------------------------------------------
(* Python values.                                                          *)

None == [none |-> TRUE]
Num(i) == [num |-> i]
Str(s) == [str |-> s]

Max(a, b) == IF a >= b THEN a ELSE b
Min(a, b) == IF a <= b THEN a ELSE b

\* slice(start, stop, step); each field is None or a number.
Slice(start, stop, step) == [start |-> start, stop |-> stop, step |-> step]
SliceNone == Slice(None, None, None)

\* The positions (0-based, in order) that seq[slc] selects from a sequence of
\* length n: Python's slice.indices(n).
SliceStep(slc) == IF slc.step = None THEN 1 ELSE slc.step.num

SliceStart(slc, n) ==
    LET s == SliceStep(slc) IN
    IF slc.start = None THEN (IF s > 0 THEN 0 ELSE n - 1)
    ELSE IF slc.start.num < 0 THEN Max(slc.start.num + n, IF s > 0 THEN 0 ELSE -1)
    ELSE Min(slc.start.num, IF s > 0 THEN n ELSE n - 1)

SliceStop(slc, n) ==
    LET s == SliceStep(slc) IN
    IF slc.stop = None THEN (IF s > 0 THEN n ELSE -1)
    ELSE IF slc.stop.num < 0 THEN Max(slc.stop.num + n, IF s > 0 THEN 0 ELSE -1)
    ELSE Min(slc.stop.num, IF s > 0 THEN n ELSE n - 1)

RECURSIVE SliceFrom(_, _, _)
SliceFrom(i, stop, s) ==
    IF (s > 0 /\ i >= stop) \/ (s < 0 /\ i <= stop) THEN <<>>
    ELSE <<i>> \o SliceFrom(i + s, stop, s)

SliceIndices(slc, n) == SliceFrom(SliceStart(slc, n), SliceStop(slc, n), SliceStep(slc))

\* seq[slc]
GetSlice(seq, slc) ==
    LET idx == SliceIndices(slc, Len(seq)) IN [k \in 1..Len(idx) |-> seq[idx[k] + 1]]

-----------------------------------------------------------------------------
(* Metadata: meta.Variable, RunMeta, ChainMeta.                            *)

Variable(name, dtype, shape, undefined_ndim) ==
    [name |-> name, dtype |-> dtype, shape |-> shape, undefined_ndim |-> undefined_ndim]

RunMeta(rid, sample_stats) == [rid |-> rid, sample_stats |-> sample_stats]

ChainMeta(rid, chain_number) == [rid |-> rid, chain_number |-> chain_number]

StatNames(rmeta) == {rmeta.sample_stats[k].name : k \in 1..Len(rmeta.sample_stats)}

\* Chain.sample_stats[name]: the declared Variable of that name.
SampleStat(rmeta, name) ==
    CHOOSE var \in {rmeta.sample_stats[k] : k \in 1..Len(rmeta.sample_stats)} : var.name = name

\* core.is_rigid(shape): no dimension of the declared shape is 0 (flexible).
is_rigid(shape) == \A k \in 1..Len(shape) : shape[k] # 0

-----------------------------------------------------------------------------
(* numpy arrays: the dtype, the shape after the first axis, and one entry  *)
(* per position of the first axis.                                         *)

NdArray(dtype, tail, data) == [dtype |-> dtype, tail |-> tail, data |-> data]

Capacity(buffer) == Len(buffer.data)

Shape(buffer) == <<Capacity(buffer)>> \o buffer.tail

\* numpy.empty(shape, dtype): n entries of whatever the memory held.
NumpyEmpty(n, tail, dtype, garbage) == NdArray(dtype, tail, [k \in 1..n |-> garbage])

\* numpy.array([None] * n, dtype=object)
ObjectArray(n) == NdArray("object", <<>>, [k \in 1..n |-> None])

-----------------------------------------------------------------------------
(* What a call does: it returns a value or raises an exception.            *)

Return(value) == [status |-> "ok", value |-> value]
Raise(exception) == [status |-> exception, value |-> None]

\* array[idx] on the first axis, with Python's negative indices.
Item(buffer, idx) ==
    IF 0 <= idx /\ idx < Capacity(buffer) THEN Return(buffer.data[idx + 1])
    ELSE IF idx < 0 /\ -idx <= Capacity(buffer)
         THEN Return(buffer.data[Capacity(buffer) + idx + 1])
         ELSE Raise("IndexError")

\* str(x) as numpy.array(list, dtype=str) applies it to each entry.
StrOf(value) == IF value = None THEN Str("None") ELSE value

-----------------------------------------------------------------------------
(* backends/numpy.py grow_append: the growth policy and the write.         *)

\* ceil(capacity * 1.1)
CeilTenPercent(capacity) == (11 * capacity + 9) \div 10

\* TypedBuffer add(buffer, value, index): write in place below the capacity,
\* otherwise grow to max(index + 1, ceil(capacity * 1.1)), keep the old
\* contents, pad (absent markers in an object array, unwritten memory in a
\* numeric one) and write.
BufferAdd(buffer, value, index, garbage) ==
    LET capacity == Capacity(buffer)
        grown == Max(index + 1, CeilTenPercent(capacity))
        filler == IF buffer.dtype = "object" THEN None ELSE garbage
    IN  IF index < capacity
        THEN [buffer EXCEPT !.data[index + 1] = value]
        ELSE [buffer EXCEPT !.data =
                 [k \in 1..grown |->
                     IF k <= capacity THEN buffer.data[k]
                     ELSE IF k = index + 1 THEN value ELSE filler]]

\* grow_append(storage_dict, values, rigid, draw_idx): every variable of the
\* mapping that is declared gets its value written at draw_idx; the others
\* are left alone.
grow_append(storage_dict, values, rigid, draw_idx, garbage) ==
    [vn \in DOMAIN storage_dict |->
        IF vn \in DOMAIN values
        THEN BufferAdd(storage_dict[vn], values[vn], draw_idx, garbage)
        ELSE storage_dict[vn]]

-----------------------------------------------------------------------------
(* NullChain                                                               *)

\* A bug the classification could have: undefined_ndim is not consulted.
Mutant_rigid_ignores_ndim(var) == is_rigid(var.shape) /\ var.dtype # "str"

\* line 53
Rigid(var) == is_rigid(var.shape) /\ ~var.undefined_ndim /\ var.dtype # "str"

\* A bug the allocation could have: the rigidity of the variable is not consulted.
Mutant_allocate_ignores_rigid(var, rigid, preallocate, garbage) ==
    IF preallocate > 0
    THEN NumpyEmpty(preallocate, var.shape, var.dtype, garbage)
    ELSE ObjectArray(preallocate)

\* lines 55-59
Allocate(var, rigid, preallocate, garbage) ==
    IF preallocate > 0 /\ rigid
    THEN NumpyEmpty(preallocate, var.shape, var.dtype, garbage)
    ELSE ObjectArray(preallocate)

\* NullChain.__init__(cmeta, rmeta, preallocate=...)
NullChain(cmeta, rmeta, preallocate, garbage) ==
    [cmeta |-> cmeta,
     stat_is_rigid |-> [name \in StatNames(rmeta) |-> Rigid(SampleStat(rmeta, name))],
     stats |-> [name \in StatNames(rmeta) |->
                   LET var == SampleStat(rmeta, name)
                   IN  Allocate(var, Rigid(var), preallocate, garbage)],
     draw_idx |-> 0]

\* `if stats:` -- None and the empty mapping are falsy.
Truthy(stats) == stats # None /\ DOMAIN stats # {}

\* A bug append could have: the counter advances only when stats are written.
Mutant_append_counts_stats_only(chain, draw, stats, garbage) ==
    IF Truthy(stats)
    THEN [chain EXCEPT !.stats = grow_append(chain.stats, stats, chain.stat_is_rigid,
                                             chain.draw_idx, garbage),
                       !.draw_idx = chain.draw_idx + 1]
    ELSE chain

\* A bug append could have: the counter advances before the write.
Mutant_append_increments_first(chain, draw, stats, garbage) ==
    LET written == IF Truthy(stats)
                   THEN grow_append(chain.stats, stats, chain.stat_is_rigid,
                                    chain.draw_idx + 1, garbage)
                   ELSE chain.stats
    IN  [chain EXCEPT !.stats = written, !.draw_idx = chain.draw_idx + 1]

\* NullChain.append(draw, stats): the chain after the call.
\* A bug append could have: without stats, every buffer is trimmed to the
\* entries recorded so far.
Mutant_append_trims_without_stats(chain, draw, stats, garbage) ==
    LET written == IF Truthy(stats)
                   THEN grow_append(chain.stats, stats, chain.stat_is_rigid,
                                    chain.draw_idx, garbage)
                   ELSE [name \in DOMAIN chain.stats |->
                            [chain.stats[name] EXCEPT !.data =
                                SubSeq(@, 1, Min(chain.draw_idx, Len(@)))]]
    IN  [chain EXCEPT !.stats = written, !.draw_idx = chain.draw_idx + 1]

\* A bug a discarding chain could have: without stats, the draw value is stored
\* in the stats buffers.
Mutant_append_stores_draw(chain, draw, stats, garbage) ==
    LET written == IF Truthy(stats)
                   THEN grow_append(chain.stats, stats, chain.stat_is_rigid,
                                    chain.draw_idx, garbage)
                   ELSE [name \in DOMAIN chain.stats |->
                            BufferAdd(chain.stats[name], draw.x, chain.draw_idx, garbage)]
    IN  [chain EXCEPT !.stats = written, !.draw_idx = chain.draw_idx + 1]

NullChain_append(chain, draw, stats, garbage) ==
    LET written == IF Truthy(stats)
                   THEN grow_append(chain.stats, stats, chain.stat_is_rigid,
                                    chain.draw_idx, garbage)
                   ELSE chain.stats
    IN  [chain EXCEPT !.stats = written, !.draw_idx = chain.draw_idx + 1]

\* NullChain.__len__
NullChain_len(chain) == Return(chain.draw_idx)

\* A bug get_draws could have: an empty result instead of the error.
Mutant_get_draws_returns_empty(chain, var_name, slc) == Return(<<>>)

\* NullChain.get_draws(var_name, slc)
NullChain_get_draws(chain, var_name, slc) == Raise("RuntimeError")

\* NullChain.get_draws_at(idx, var_names)
NullChain_get_draws_at(chain, idx, var_names) == Raise("RuntimeError")

\* A bug get_stats could have: an undeclared name reads as no data (dict.get).
Mutant_get_stats_default_empty(chain, rmeta, stat_name, slc) ==
    IF stat_name \notin DOMAIN chain.stats THEN Return(<<>>)
    ELSE LET upto == SubSeq(chain.stats[stat_name].data, 1,
                            Min(chain.draw_idx, Capacity(chain.stats[stat_name])))
             data == GetSlice(upto, slc)
         IN  IF SampleStat(rmeta, stat_name).dtype = "str"
             THEN Return([k \in 1..Len(data) |-> StrOf(data[k])])
             ELSE Return(data)

\* NullChain.get_stats(stat_name, slc)
\* A bug get_stats could have: the range stops one entry before the draw count.
Mutant_get_stats_excludes_last(chain, rmeta, stat_name, slc) ==
    IF stat_name \notin DOMAIN chain.stats THEN Raise("KeyError")
    ELSE LET upto == SubSeq(chain.stats[stat_name].data, 1,
                            Min(chain.draw_idx - 1, Capacity(chain.stats[stat_name])))
             data == GetSlice(upto, slc)
         IN  IF SampleStat(rmeta, stat_name).dtype = "str"
             THEN Return([k \in 1..Len(data) |-> StrOf(data[k])])
             ELSE Return(data)

NullChain_get_stats(chain, rmeta, stat_name, slc) ==
    IF stat_name \notin DOMAIN chain.stats THEN Raise("KeyError")
    ELSE LET upto == SubSeq(chain.stats[stat_name].data, 1,
                            Min(chain.draw_idx, Capacity(chain.stats[stat_name])))
             data == GetSlice(upto, slc)
         IN  IF SampleStat(rmeta, stat_name).dtype = "str"
             THEN Return([k \in 1..Len(data) |-> StrOf(data[k])])
             ELSE Return(data)

\* NullChain.get_stats_at(idx, stat_names): the dict comprehension, name by
\* name in the order given; the first failing lookup raises.
RECURSIVE StatsAtFrom(_, _, _, _, _)
StatsAtFrom(chain, idx, stat_names, k, acc) ==
    IF k > Len(stat_names) THEN Return(acc)
    ELSE LET sn == stat_names[k] IN
         IF sn \notin DOMAIN chain.stats THEN Raise("KeyError")
         ELSE LET item == Item(chain.stats[sn], idx) IN
              IF item.status # "ok" THEN item
              ELSE StatsAtFrom(chain, idx, stat_names, k + 1, (sn :> item.value) @@ acc)

NullChain_get_stats_at(chain, idx, stat_names) == StatsAtFrom(chain, idx, stat_names, 1, <<>>)

-----------------------------------------------------------------------------
(* NullRun and NullBackend                                                 *)

\* NullRun.__init__(meta, preallocate=...)
NullRun(meta, preallocate) ==
    [meta |-> meta, settings |-> [preallocate |-> preallocate], chains |-> <<>>]

\* A bug init_chain could have: a chain number already in use is refused.
Mutant_init_chain_unique_numbers(run, chain_number, garbage) ==
    LET cmeta == ChainMeta(run.meta.rid, chain_number)
        chain == NullChain(cmeta, run.meta, run.settings.preallocate, garbage)
    IN  IF \E k \in 1..Len(run.chains) : run.chains[k].cmeta.chain_number = chain_number
        THEN run
        ELSE [run EXCEPT !.chains = Append(run.chains, chain)]

\* NullRun.init_chain(chain_number): the run after the call; the new chain is its last.
NullRun_init_chain(run, chain_number, garbage) ==
    LET cmeta == ChainMeta(run.meta.rid, chain_number)
        chain == NullChain(cmeta, run.meta, run.settings.preallocate, garbage)
    IN  [run EXCEPT !.chains = Append(run.chains, chain)]

\* NullRun.get_chains()
NullRun_get_chains(run) == Return(run.chains)

\* NullBackend.__init__(preallocate)
NullBackend(preallocate) == [preallocate |-> preallocate]

\* NullBackend.init_run(meta)
NullBackend_init_run(backend_settings, meta) == NullRun(meta, backend_settings.preallocate)

-----------------------------------------------------------------------------
(* The inputs the calls are made with.                                     *)

\* The declared stats: the schemas of test_targets, a string stat and a stat
\* whose number of dimensions is not fixed.
tensor == Variable("tensor", "int8", <<3, 4, 5>>, FALSE)
changeling == Variable("changeling", "uint16", <<3, 0>>, FALSE)
label == Variable("label", "str", <<>>, FALSE)
flex == Variable("flex", "float32", <<2>>, TRUE)

RunMetas ==
    {RunMeta("rA", <<tensor, label>>), RunMeta("rB", <<changeling>>), RunMeta("rC", <<flex>>)}

\* What freshly allocated memory may hold: a number that is also appended,
\* and one that never is.
Garbage == {Num(0), Num(1)}

\* The values a stat is appended with.
ValuesOf(var) == IF var.dtype = "str" THEN {Str("x")} ELSE {Num(1), Num(2)}

AllValues == {Str("x"), Num(1), Num(2)}

\* The mappings name -> value over some of the declared stats (the empty one too).
StatsMappings(rmeta) ==
    UNION {{f \in [S -> AllValues] : \A name \in S : f[name] \in ValuesOf(SampleStat(rmeta, name))}
           : S \in SUBSET StatNames(rmeta)}

\* The stats argument of append: None (the default) or a mapping.
StatsArgs(rmeta) == {None} \cup StatsMappings(rmeta)

\* The draw argument of append.
Draws == {[x |-> Num(1)], [x |-> Num(2)]}

\* Names asked for: the declared ones and one that is not declared.
AskedNames(rmeta) == StatNames(rmeta) \cup {"nonexistent"}

\* Lists of names asked for: none, one name, all the declared ones, and all
\* the declared ones followed by the undeclared one.
DeclaredList(rmeta) == [k \in 1..Len(rmeta.sample_stats) |-> rmeta.sample_stats[k].name]

AskedLists(rmeta) ==
    {<<>>, DeclaredList(rmeta), DeclaredList(rmeta) \o <<"nonexistent">>}
        \cup {<<name>> : name \in AskedNames(rmeta)}

Slices ==
    {SliceNone, Slice(Num(1), None, None), Slice(None, Num(-1), None),
     Slice(None, None, Num(-1))}

Indices == -1..MaxDraws

-----------------------------------------------------------------------------
(* The calls, as actions.                                                  *)

ChainAt(r, c) == runs[r].chains[c]

Call(op, r, c, args, outcome) ==
    [op |-> op, run |-> r, chain |-> c, args |-> args,
     status |-> outcome.status, value |-> outcome.value]

NoCall == [op |-> "none"]

\* chain.append(draw, stats)
\* A bug the chains of a run could have: they share one storage, so an append
\* on one chain is seen by every chain of the run.
Mutant_ChainAppend_shared_storage(r, c, draw, stats) ==
    /\ ChainAt(r, c).draw_idx < MaxDraws
    /\ runs' = [runs EXCEPT ![r].chains =
                    [k \in DOMAIN @ |-> NullChain_append(@[k], draw, stats, heap)]]
    /\ appended' = [appended EXCEPT ![r][c] = Append(@, stats)]
    /\ result' = Call("append", r, c, <<stats>>, Return(None))
    /\ UNCHANGED <<heap, settings, inited>>

ChainAppend(r, c, draw, stats) ==
    /\ ChainAt(r, c).draw_idx < MaxDraws
    /\ runs' = [runs EXCEPT ![r].chains[c] = NullChain_append(@, draw, stats, heap)]
    /\ appended' = [appended EXCEPT ![r][c] = Append(@, stats)]
    /\ result' = Call("append", r, c, <<stats>>, Return(None))
    /\ UNCHANGED <<heap, settings, inited>>

\* len(chain)
ChainLen(r, c) ==
    /\ result' = Call("len", r, c, <<>>, NullChain_len(ChainAt(r, c)))
    /\ UNCHANGED <<heap, settings, runs, inited, appended>>

\* chain.get_draws(var_name, slc)
GetDraws(r, c, var_name, slc) ==
    /\ result' = Call("get_draws", r, c, <<var_name, slc>>,
                      NullChain_get_draws(ChainAt(r, c), var_name, slc))
    /\ UNCHANGED <<heap, settings, runs, inited, appended>>

\* chain.get_draws_at(idx, var_names)
GetDrawsAt(r, c, idx, var_names) ==
    /\ result' = Call("get_draws_at", r, c, <<idx, var_names>>,
                      NullChain_get_draws_at(ChainAt(r, c), idx, var_names))
    /\ UNCHANGED <<heap, settings, runs, inited, appended>>

\* chain.get_stats(stat_name, slc)
\* A bug a read could have: reading consumes the chain, resetting its draw count.
Mutant_GetStats_consumes(r, c, stat_name, slc) ==
    /\ result' = Call("get_stats", r, c, <<stat_name, slc>>,
                      NullChain_get_stats(ChainAt(r, c), runs[r].meta, stat_name, slc))
    /\ runs' = [runs EXCEPT ![r].chains[c].draw_idx = 0]
    /\ UNCHANGED <<heap, settings, inited, appended>>

GetStats(r, c, stat_name, slc) ==
    /\ result' = Call("get_stats", r, c, <<stat_name, slc>>,
                      NullChain_get_stats(ChainAt(r, c), runs[r].meta, stat_name, slc))
    /\ UNCHANGED <<heap, settings, runs, inited, appended>>

\* chain.get_stats_at(idx, stat_names)
GetStatsAt(r, c, idx, stat_names) ==
    /\ result' = Call("get_stats_at", r, c, <<idx, stat_names>>,
                      NullChain_get_stats_at(ChainAt(r, c), idx, stat_names))
    /\ UNCHANGED <<heap, settings, runs, inited, appended>>

-----------------------------------------------------------------------------
(* Spec: one chain, NullBackend(preallocate).init_run(meta).init_chain(0), *)
(* and every call on it.                                                   *)

Init ==
    /\ heap \in Garbage
    /\ settings \in {NullBackend(p) : p \in 0..MaxPreallocate}
    /\ runs \in {<<NullRun_init_chain(NullBackend_init_run(settings, meta), 0, heap)>>
                 : meta \in RunMetas}
    /\ inited = << <<0>> >>
    /\ appended = << << <<>> >> >>
    /\ result = NoCall

Next ==
    \/ \E r \in 1..Len(runs) : \E c \in 1..Len(runs[r].chains) :
           \E draw \in Draws, stats \in StatsArgs(runs[r].meta) : ChainAppend(r, c, draw, stats)
    \/ \E r \in 1..Len(runs) : \E c \in 1..Len(runs[r].chains) : ChainLen(r, c)
    \/ \E r \in 1..Len(runs) : \E c \in 1..Len(runs[r].chains) :
           \E var_name \in {"x", "nonexistent"} : GetDraws(r, c, var_name, SliceNone)
    \/ \E r \in 1..Len(runs) : \E c \in 1..Len(runs[r].chains) :
           \E idx \in {0, MaxDraws} : GetDrawsAt(r, c, idx, <<"x">>)
    \/ \E r \in 1..Len(runs) : \E c \in 1..Len(runs[r].chains) :
           \E stat_name \in AskedNames(runs[r].meta), slc \in Slices :
               GetStats(r, c, stat_name, slc)
    \/ \E r \in 1..Len(runs) : \E c \in 1..Len(runs[r].chains) :
           \E idx \in Indices, stat_names \in AskedLists(runs[r].meta) :
               GetStatsAt(r, c, idx, stat_names)

Spec == Init /\ [][Next]_vars

-----------------------------------------------------------------------------
(* SpecRuns: a backend, the runs it produces, the chains they produce, in  *)
(* any order and with any chain numbers, and a few calls on the chains.    *)

ChainNumbers == {0, 1}

RECURSIVE SumLen(_)
SumLen(seqs) == IF seqs = <<>> THEN 0 ELSE Len(Head(seqs)) + SumLen(Tail(seqs))

\* How many chains the backend's runs hold, and how many appends were made on them.
TotalChains == SumLen(appended)
TotalDraws == SumLen([r \in 1..Len(appended) |-> [k \in 1..SumLen(appended[r]) |-> k]])

\* The stats argument in SpecRuns: none, or every declared stat with one value.
FullStats(rmeta) ==
    [name \in StatNames(rmeta) |-> CHOOSE v \in ValuesOf(SampleStat(rmeta, name)) : TRUE]

\* The schema the k-th run of the backend is created with.
MetaOfRun ==
    <<RunMeta("rA", <<tensor, label>>), RunMeta("rB", <<changeling>>), RunMeta("rC", <<flex>>)>>

\* backend.init_run(meta)
InitRun(meta) ==
    /\ Len(runs) < MaxRuns
    /\ runs' = Append(runs, NullBackend_init_run(settings, meta))
    /\ inited' = Append(inited, <<>>)
    /\ appended' = Append(appended, <<>>)
    /\ result' = Call("init_run", Len(runs) + 1, 0, <<meta>>, Return(None))
    /\ UNCHANGED <<heap, settings>>

\* run.init_chain(chain_number); the call returns the new chain.
InitChain(r, chain_number) ==
    /\ TotalChains < MaxChains
    /\ runs' = [runs EXCEPT ![r] = NullRun_init_chain(@, chain_number, heap)]
    /\ inited' = [inited EXCEPT ![r] = Append(@, chain_number)]
    /\ appended' = [appended EXCEPT ![r] = Append(@, <<>>)]
    /\ result' = Call("init_chain", r, Len(runs'[r].chains), <<chain_number>>,
                      Return(runs'[r].chains[Len(runs'[r].chains)]))
    /\ UNCHANGED <<heap, settings>>

\* run.get_chains()
GetChains(r) ==
    /\ result' = Call("get_chains", r, 0, <<>>, NullRun_get_chains(runs[r]))
    /\ UNCHANGED <<heap, settings, runs, inited, appended>>

\* chain.append(draw, stats), within the bound on the backend's appends.
RunAppend(r, c, draw, stats) ==
    /\ TotalDraws < MaxRunDraws
    /\ ChainAppend(r, c, draw, stats)

InitRuns ==
    /\ heap \in Garbage
    /\ settings \in {NullBackend(p) : p \in {0, MaxPreallocate}}
    /\ runs = <<>>
    /\ inited = <<>>
    /\ appended = <<>>
    /\ result = NoCall

NextRuns ==
    \/ \E meta \in {MetaOfRun[k] : k \in {Len(runs) + 1} \cap DOMAIN MetaOfRun} : InitRun(meta)
    \/ \E r \in 1..Len(runs) : \E chain_number \in ChainNumbers : InitChain(r, chain_number)
    \/ \E r \in 1..Len(runs) : GetChains(r)
    \/ \E r \in 1..Len(runs) : \E c \in 1..Len(runs[r].chains) :
           \E draw \in Draws, stats \in {None, FullStats(runs[r].meta)} :
               RunAppend(r, c, draw, stats)
    \/ \E r \in 1..Len(runs) : \E c \in 1..Len(runs[r].chains) : ChainLen(r, c)

SpecRuns == InitRuns /\ [][NextRuns]_vars

-----------------------------------------------------------------------------
(* SpecGrowing: test_growing.  One chain of a backend with preallocate up  *)
(* to 15, schema A (rigid) and B (flexible), and appends that supply both. *)

TestPreallocate == 15
TestDraws == 22

A == Variable("A", "float32", <<2>>, FALSE)
B == Variable("B", "float32", <<0>>, FALSE)

InitGrowing ==
    /\ heap \in Garbage
    /\ settings \in {NullBackend(p) : p \in 0..TestPreallocate}
    /\ runs = <<NullRun_init_chain(NullBackend_init_run(settings, RunMeta("rG", <<A, B>>)),
                                   0, heap)>>
    /\ inited = << <<0>> >>
    /\ appended = << << <<>> >> >>
    /\ result = NoCall

\* chain.append(draw, {"A": ..., "B": ...}), as the loop of test_growing.
GrowingAppend(r, c, draw, stats) ==
    /\ ChainAt(r, c).draw_idx < TestDraws + MaxExtraDraws
    /\ runs' = [runs EXCEPT ![r].chains[c] = NullChain_append(@, draw, stats, heap)]
    /\ appended' = [appended EXCEPT ![r][c] = Append(@, stats)]
    /\ result' = Call("append", r, c, <<stats>>, Return(None))
    /\ UNCHANGED <<heap, settings, inited>>

NextGrowing ==
    \/ \E draw \in Draws : GrowingAppend(1, 1, draw, FullStats(runs[1].meta))
    \/ ChainLen(1, 1)

SpecGrowing == InitGrowing /\ [][NextGrowing]_vars

-----------------------------------------------------------------------------
(* The error kinds of the specification.                                   *)

\* UnsupportedOperation: the RuntimeError of get_draws / get_draws_at.
UnsupportedOperation(res) == res.status = "RuntimeError"

\* OutOfRange: a failed lookup, by key (KeyError) or by position (IndexError).
OutOfRange(res) == res.status \in {"KeyError", "IndexError"}

\* Every chain of every run, as <<run, chain>> positions.
Chains == UNION {{<<r, c>> : c \in 1..Len(runs[r].chains)} : r \in 1..Len(runs)}

\* The chain and the run's schema the last call was made on.
Called == ChainAt(result.run, result.chain)
CalledMeta == runs[result.run].meta

-----------------------------------------------------------------------------
(* C1 *)

\* C1: len(chain) equals the number of append calls made on the chain so far,
\* whether or not the calls carried stats; what len() returns is that number.
C1_LenCountsAppends ==
    /\ \A rc \in Chains :
           NullChain_len(ChainAt(rc[1], rc[2])) = Return(Len(appended[rc[1]][rc[2]]))
    /\ result.op = "len" => result.value = Len(appended[result.run][result.chain])

\* Two appends, one without stats and one with, then len() returns 2.
C1_Witness ==
    /\ result.op = "len" /\ result.value = 2
    /\ \E i, j \in 1..2 : /\ appended[result.run][result.chain][i] = None
                          /\ Truthy(appended[result.run][result.chain][j])

-----------------------------------------------------------------------------
(* C2 *)

\* C2: every get_draws and get_draws_at call fails with the unsupported-operation
\* error and leaves the draw count and the stats buffers as they were.
C2_GetDrawsUnsupported ==
    [][result'.op \in {"get_draws", "get_draws_at"}
          => /\ UnsupportedOperation(result')
             /\ runs' = runs]_vars

\* get_draws_at has failed on a chain that holds appended stats.
C2_Witness ==
    /\ result.op = "get_draws_at" /\ UnsupportedOperation(result)
    /\ Called.draw_idx = 2
    /\ \E name \in DOMAIN Called.stats : Capacity(Called.stats[name]) = 2

-----------------------------------------------------------------------------
(* C3 *)

\* C3: get_stats_at(index, names), asked for declared names at an index >= L,
\* fails with an out-of-range error.
C3_StatsAtBeyondLenFails ==
    (/\ result.op = "get_stats_at"
     /\ result.args[2] # <<>>
     /\ \A k \in 1..Len(result.args[2]) : result.args[2][k] \in StatNames(CalledMeta)
     /\ result.args[1] >= Called.draw_idx)
        => OutOfRange(result)

-----------------------------------------------------------------------------
(* C4 *)

\* What was appended for stat `name` at position i (0-based) of chain rc, if anything.
Supplied(rc, i, name) ==
    LET stats == appended[rc[1]][rc[2]][i + 1] IN Truthy(stats) /\ name \in DOMAIN stats

\* C4: a value appended for a stat at position i is what get_stats_at(i, [stat])
\* and position i of get_stats(stat) return, whatever was appended afterwards.
C4_RoundTrip ==
    \A rc \in Chains :
        LET chain == ChainAt(rc[1], rc[2])
            rmeta == runs[rc[1]].meta
        IN  \A i \in 0..(Len(appended[rc[1]][rc[2]]) - 1) : \A name \in StatNames(rmeta) :
                Supplied(rc, i, name) =>
                    LET v == appended[rc[1]][rc[2]][i + 1][name]
                        at == NullChain_get_stats_at(chain, i, <<name>>)
                        all == NullChain_get_stats(chain, rmeta, name, SliceNone)
                    IN  /\ at = Return(name :> v)
                        /\ all.status = "ok"
                        /\ Len(all.value) > i
                        /\ all.value[i + 1] = v

\* The value 2 appended at position 0 is read back at 0 after a later append of
\* another value made the buffer grow.
C4_Witness ==
    /\ result.op = "get_stats_at" /\ result.args = <<0, <<"tensor">> >>
    /\ result.status = "ok" /\ result.value["tensor"] = Num(2)
    /\ Len(appended[result.run][result.chain]) = 2
    /\ Supplied(<<result.run, result.chain>>, 0, "tensor")
    /\ Supplied(<<result.run, result.chain>>, 1, "tensor")
    /\ appended[result.run][result.chain][2]["tensor"] = Num(1)
    /\ Capacity(Called.stats["tensor"]) > runs[result.run].settings.preallocate

-----------------------------------------------------------------------------
(* C5 *)

\* C5: get_stats(name) of a declared stat with the full range returns exactly L entries.
C5_GetStatsReturnsLenEntries ==
    (/\ result.op = "get_stats"
     /\ result.args[1] \in StatNames(CalledMeta)
     /\ result.args[2] = SliceNone)
        => /\ result.status = "ok"
           /\ Len(result.value) = Called.draw_idx

-----------------------------------------------------------------------------
(* C6 *)

\* ceil(1.1 * C): the least n with 10 n >= 11 C.
C6_Ceil(C) == CHOOSE n \in 0..(2 * C + 1) : 10 * n >= 11 * C /\ 10 * (n - 1) < 11 * C

\* The capacities test_growing states for L draws from preallocate = 15.
C6_TestCapacity(L) ==
    IF L <= 15 THEN 15 ELSE IF L <= 17 THEN 17 ELSE IF L <= 19 THEN 19
    ELSE IF L <= 21 THEN 21 ELSE 24

\* C6: an append that supplies a stat at an index equal to the capacity C of
\* its buffer makes the capacity max(C + 1, ceil(1.1 C)); at an index below C
\* the capacity stays C; from preallocate = 15 the capacities over 22 appends
\* are 15, 17, 19, 21, 24.
C6_GrowthLaw ==
    [][result'.op = "append" /\ Truthy(result'.args[1]) =>
          \A name \in DOMAIN result'.args[1] :
              LET before == ChainAt(result'.run, result'.chain)
                  C == Capacity(before.stats[name])
                  index == before.draw_idx
                  after == Capacity(Called'.stats[name])
              IN  /\ index = C => after = Max(C + 1, C6_Ceil(C))
                  /\ index < C => after = C
                  /\ (settings.preallocate = 15 /\ index < 22)
                         => after = C6_TestCapacity(index + 1)
      ]_vars

\* The 22nd append from preallocate = 15 is done: both buffers have capacity 24.
C6_Witness ==
    /\ result.op = "append"
    /\ settings.preallocate = 15
    /\ Called.draw_idx = 22
    /\ Capacity(Called.stats["A"]) = 24
    /\ Capacity(Called.stats["B"]) = 24

-----------------------------------------------------------------------------
(* C7 *)

\* The classification the specification gives: no flexible dimension, a fixed
\* number of dimensions, and not the string kind.
C7_RigidSchema(var) ==
    /\ \A k \in 1..Len(var.shape) : var.shape[k] # 0
    /\ ~var.undefined_ndim
    /\ var.dtype # "str"

\* C7: before any append, every declared stat has a buffer of capacity P =
\* preallocate: numeric, of shape (P, *declared shape) and of the declared dtype,
\* when the stat is rigid and P > 0; otherwise an object array of P absent markers.
C7_AllocationAtInit ==
    \A rc \in Chains :
        appended[rc[1]][rc[2]] = <<>> =>
            LET chain == ChainAt(rc[1], rc[2])
                rmeta == runs[rc[1]].meta
                P == settings.preallocate
            IN  /\ DOMAIN chain.stats = StatNames(rmeta)
                /\ \A k \in 1..Len(rmeta.sample_stats) :
                       LET var == rmeta.sample_stats[k]
                           buffer == chain.stats[var.name]
                       IN  /\ Capacity(buffer) = P
                           /\ IF C7_RigidSchema(var) /\ P > 0
                              THEN /\ Shape(buffer) = <<P>> \o var.shape
                                   /\ buffer.dtype = var.dtype
                              ELSE /\ buffer.dtype = "object"
                                   /\ Shape(buffer) = <<P>>
                                   /\ \A i \in 1..P : buffer.data[i] = None

\* A fresh chain (len() returned 0) with preallocate = 1 holds a numeric
\* (1, 3, 4, 5) int8 buffer for the rigid stat and an object buffer for the
\* string stat.
C7_Witness ==
    /\ result.op = "len" /\ result.value = 0
    /\ settings.preallocate = 1
    /\ \E rc \in Chains :
           LET chain == ChainAt(rc[1], rc[2]) IN
           /\ chain.draw_idx = 0
           /\ DOMAIN chain.stats = {"tensor", "label"}
           /\ Shape(chain.stats["tensor"]) = <<1, 3, 4, 5>>
           /\ chain.stats["tensor"].dtype = "int8"
           /\ chain.stats["label"] = ObjectArray(1)

-----------------------------------------------------------------------------
(* C8 *)

\* What an unwritten slot of a buffer holds.
Placeholder(buffer) == IF buffer.dtype = "object" THEN None ELSE heap

\* C8: after an append whose mapping omits a declared stat, len has advanced by
\* one and that stat's slot at the appended position exists and holds the
\* placeholder.
C8_PartialAppendKeepsSlot ==
    (/\ result.op = "append"
     /\ Truthy(result.args[1]))
        => /\ Called.draw_idx = Len(appended[result.run][result.chain])
           /\ \A name \in StatNames(CalledMeta) \ DOMAIN result.args[1] :
                  LET buffer == Called.stats[name]
                      position == Called.draw_idx - 1
                  IN  /\ position < Capacity(buffer)
                      /\ buffer.data[position + 1] = Placeholder(buffer)

-----------------------------------------------------------------------------
(* C9 *)

\* The names a get_stats / get_stats_at call asked for.
AskedBy(res) ==
    IF res.op = "get_stats" THEN {res.args[1]}
    ELSE IF res.op = "get_stats_at" THEN {res.args[2][k] : k \in 1..Len(res.args[2])}
    ELSE {}

\* C9: a get_stats or get_stats_at call that asks for a name which is not a
\* declared stat fails with an out-of-range error and changes nothing of the chain.
C9_UndeclaredNameFails ==
    [][AskedBy(result') \ StatNames(CalledMeta') # {}
          => /\ OutOfRange(result')
             /\ runs' = runs]_vars

\* get_stats("nonexistent") has failed on a chain that holds two draws.
C9_Witness ==
    /\ result.op = "get_stats" /\ result.args[1] = "nonexistent"
    /\ result.status = "KeyError"
    /\ Called.draw_idx = 2
    /\ \E name \in DOMAIN Called.stats : Capacity(Called.stats[name]) = 2

-----------------------------------------------------------------------------
(* C10 *)

\* What get_chains returns is one chain per init_chain call, in call order,
\* each with the chain_number of its call.
C10_OneChainPerCall ==
    \A r \in 1..Len(runs) :
        LET got == NullRun_get_chains(runs[r]) IN
        /\ got.status = "ok"
        /\ Len(got.value) = Len(inited[r])
        /\ \A k \in 1..Len(inited[r]) : got.value[k].cmeta.chain_number = inited[r][k]

\* C10: get_chains returns one chain per init_chain call, in call order; every
\* init_chain call succeeds, whatever the number, and returns a chain with that
\* number and L = 0, which is the last of the run; the chains that were there
\* keep their places.
C10_InitChainAppends ==
    [][/\ C10_OneChainPerCall'
       /\ result'.op = "get_chains" => result'.value = runs'[result'.run].chains
       /\ result'.op = "init_chain" =>
              /\ result'.status = "ok"
              /\ result'.value.cmeta.chain_number = result'.args[1]
              /\ result'.value.draw_idx = 0
              /\ runs'[result'.run].chains = Append(runs[result'.run].chains, result'.value)
      ]_vars

\* get_chains has returned two chains created with the numbers 1 and 0, in that
\* order, or twice with the same number; the first already holds a draw.
C10_Witness ==
    /\ result.op = "get_chains" /\ Len(result.value) = 2
    /\ inited[result.run] \in {<<1, 0>>, <<0, 0>>}
    /\ result.value[1].draw_idx = 1

-----------------------------------------------------------------------------
(* C11 *)

\* C11: every buffer's capacity is at least the chain's draw count, C >= L.
C11_CapacityCoversLen ==
    \A rc \in Chains :
        LET chain == ChainAt(rc[1], rc[2]) IN
        \A name \in DOMAIN chain.stats : Capacity(chain.stats[name]) >= chain.draw_idx

-----------------------------------------------------------------------------
(* C12 *)

\* C12: after an append at draw index i that supplies a value for a stat, that
\* stat's buffer has capacity >= i + 1 and its slot i holds the value, also
\* when i was above the capacity before the call.
C12_AppendPostCondition ==
    (result.op = "append" /\ Truthy(result.args[1])) =>
        \A name \in DOMAIN result.args[1] \cap StatNames(CalledMeta) :
            LET buffer == Called.stats[name]
                i == Called.draw_idx - 1
            IN  /\ Capacity(buffer) >= i + 1
                /\ buffer.data[i + 1] = result.args[1][name]

\* With preallocate = 0, an append without stats and then one that supplies
\* tensor at index 1, above the capacity 0 the buffer had: the capacity is now 2.
C12_Witness ==
    /\ result.op = "append"
    /\ settings.preallocate = 0
    /\ Len(appended[result.run][result.chain]) = 2
    /\ appended[result.run][result.chain][1] = None
    /\ Supplied(<<result.run, result.chain>>, 1, "tensor")
    /\ Capacity(Called.stats["tensor"]) = 2
    /\ Called.stats["tensor"].data[2] = result.args[1]["tensor"]

-----------------------------------------------------------------------------
(* C13 *)

\* C13: in every state, before and after any append or read, a chain classifies
\* a declared stat as rigid exactly when its shape contains no 0, its
\* undefined_ndim flag is false and its dtype is not "str".
C13_RigidityClassification ==
    \A rc \in Chains :
        LET chain == ChainAt(rc[1], rc[2])
            rmeta == runs[rc[1]].meta
        IN  /\ DOMAIN chain.stat_is_rigid = StatNames(rmeta)
            /\ \A k \in 1..Len(rmeta.sample_stats) :
                   LET var == rmeta.sample_stats[k] IN
                   chain.stat_is_rigid[var.name] <=>
                       /\ ~\E d \in 1..Len(var.shape) : var.shape[d] = 0
                       /\ var.undefined_ndim = FALSE
                       /\ var.dtype # "str"

\* After two appends and a read, tensor is still classified rigid and label
\* (a string stat) still not.
C13_Witness ==
    /\ result.op = "get_stats_at" /\ result.status = "ok"
    /\ Called.draw_idx = 2
    /\ \E i \in 1..2 : Truthy(appended[result.run][result.chain][i])
    /\ Called.stat_is_rigid = [tensor |-> TRUE, label |-> FALSE]

-----------------------------------------------------------------------------
(* C14 *)

\* C14: the draw argument of append is never written: whenever a chain changes,
\* the step is an append; if its stats are None or an empty mapping, only the
\* draw counter changed (every buffer keeps contents and capacity); and the new
\* chain state is the one every possible draw argument produces.
C14_DrawNeverWritten ==
    [][\A r \in 1..Len(runs) : \A c \in 1..Len(runs[r].chains) :
           ChainAt(r, c)' # ChainAt(r, c) =>
               /\ result'.op = "append" /\ result'.run = r /\ result'.chain = c
               /\ ~Truthy(result'.args[1]) =>
                      /\ ChainAt(r, c)'.stats = ChainAt(r, c).stats
                      /\ ChainAt(r, c)'.draw_idx = ChainAt(r, c).draw_idx + 1
                      /\ ChainAt(r, c)'.stat_is_rigid = ChainAt(r, c).stat_is_rigid
               /\ \A draw \in Draws :
                      ChainAt(r, c)' = NullChain_append(ChainAt(r, c), draw, result'.args[1], heap)
      ]_vars

\* An append with stats followed by one with an empty stats mapping: the first
\* slot holds the recorded value and the counter is 2.
C14_Witness ==
    /\ result.op = "append" /\ result.args[1] = <<>>
    /\ Called.draw_idx = 2
    /\ Supplied(<<result.run, result.chain>>, 0, "tensor")
    /\ Called.stats["tensor"].data[1] = appended[result.run][result.chain][1]["tensor"]

-----------------------------------------------------------------------------
(* C15 *)

C15_Reads == {"len", "get_stats", "get_stats_at"}

\* The outcome of issuing the read recorded in res on the chains of rs.
C15_ReadAgain(res, rs) ==
    LET chain == rs[res.run].chains[res.chain] IN
    CASE res.op = "len" -> NullChain_len(chain)
      [] res.op = "get_stats" ->
             NullChain_get_stats(chain, rs[res.run].meta, res.args[1], res.args[2])
      [] res.op = "get_stats_at" -> NullChain_get_stats_at(chain, res.args[1], res.args[2])

\* C15: a step that performs len, get_stats or get_stats_at, successful or
\* failing, leaves every chain's draw count and buffers (contents and capacity)
\* unchanged, and the same read issued again right after it returns the same
\* outcome.
C15_ReadsArePure ==
    [][result'.op \in C15_Reads =>
           /\ runs' = runs
           /\ heap' = heap
           /\ LET again == C15_ReadAgain(result', runs')
              IN  again.status = result'.status /\ again.value = result'.value
      ]_vars

\* A successful get_stats that returned the two recorded values of a chain.
C15_Witness ==
    /\ result.op = "get_stats" /\ result.status = "ok"
    /\ result.args = <<"tensor", SliceNone>>
    /\ result.value = <<Num(2), Num(1)>>
    /\ Called.draw_idx = 2

-----------------------------------------------------------------------------
(* C16 *)

\* C16: a step that performs an append or a read on one chain leaves every
\* other chain (of the same run, also one created with the same chain_number,
\* and of every other run of the backend) with the same draw count, buffer
\* contents and buffer capacities.
C16_NoSharingBetweenChains ==
    [][result'.op \in {"append", "len", "get_stats", "get_stats_at"} =>
           \A r \in 1..Len(runs) : \A c \in 1..Len(runs[r].chains) :
               <<r, c>> # <<result'.run, result'.chain>> =>
                   /\ Len(runs'[r].chains) >= c
                   /\ ChainAt(r, c)'.draw_idx = ChainAt(r, c).draw_idx
                   /\ ChainAt(r, c)'.stats = ChainAt(r, c).stats
      ]_vars

\* Two chains created with the same chain_number in one run of a backend with
\* two runs: the second chain recorded an append with stats and holds the
\* value, the first chain is still empty.
C16_Witness ==
    /\ result.op = "append" /\ Truthy(result.args[1])
    /\ Len(runs) = 2
    /\ Len(runs[result.run].chains) = 2 /\ result.chain = 2
    /\ runs[result.run].chains[1].cmeta = runs[result.run].chains[2].cmeta
    /\ Called.draw_idx = 1
    /\ runs[result.run].chains[1].draw_idx = 0
    /\ \E name \in DOMAIN result.args[1] :
           Called.stats[name].data[1] = result.args[1][name]

-----------------------------------------------------------------------------
(* C17 *)

\* C17: if a declared stat was supplied in every append made on a chain, its
\* buffer's capacity is at least the draw count L, and get_stats for it with
\* the full range returns exactly L entries, the i-th being the value given to
\* the i-th append.
C17_AlwaysSuppliedIsComplete ==
    \A rc \in Chains :
        LET chain == ChainAt(rc[1], rc[2])
            rmeta == runs[rc[1]].meta
            given == appended[rc[1]][rc[2]]
        IN  \A name \in StatNames(rmeta) :
                (\A i \in 0..(Len(given) - 1) : Supplied(rc, i, name)) =>
                    LET all == NullChain_get_stats(chain, rmeta, name, SliceNone) IN
                    /\ Capacity(chain.stats[name]) >= chain.draw_idx
                    /\ all.status = "ok"
                    /\ Len(all.value) = chain.draw_idx
                    /\ \A i \in 0..(chain.draw_idx - 1) : all.value[i + 1] = given[i + 1][name]

\* Two appends that both supplied the non-rigid stat, starting from capacity 0,
\* then a full-range get_stats that returned both values in order.
C17_Witness ==
    /\ result.op = "get_stats" /\ result.args = <<"changeling", SliceNone>>
    /\ settings.preallocate = 0
    /\ Called.draw_idx = 2 /\ Len(appended[result.run][result.chain]) = 2
    /\ Supplied(<<result.run, result.chain>>, 0, "changeling")
    /\ Supplied(<<result.run, result.chain>>, 1, "changeling")
    /\ result.status = "ok"
    /\ result.value = <<appended[result.run][result.chain][1]["changeling"],
                        appended[result.run][result.chain][2]["changeling"]>>
    /\ result.value[1] # result.value[2]

-----------------------------------------------------------------------------
(* C18 *)

\* C18: across every init_run, init_chain, append and read step, no stats
\* buffer of an existing chain loses capacity, and every buffer (of old and of
\* newly created chains) has at least the capacity preallocate it was created
\* with.
C18_CapacityNeverShrinks ==
    [][/\ \A r \in 1..Len(runs) : \A c \in 1..Len(runs[r].chains) :
              /\ Len(runs') >= r /\ Len(runs'[r].chains) >= c
              /\ DOMAIN ChainAt(r, c)'.stats = DOMAIN ChainAt(r, c).stats
              /\ \A name \in DOMAIN ChainAt(r, c).stats :
                     Capacity(ChainAt(r, c)'.stats[name]) >= Capacity(ChainAt(r, c).stats[name])
       /\ \A r \in 1..Len(runs') : \A c \in 1..Len(runs'[r].chains) :
              \A name \in DOMAIN runs'[r].chains[c].stats :
                  Capacity(runs'[r].chains[c].stats[name]) >= runs'[r].settings.preallocate
      ]_vars

\* A chain created with capacity 0 grew by an append with stats, and a second
\* chain was created afterwards: the first keeps its grown capacity.
C18_Witness ==
    /\ result.op = "init_chain" /\ result.chain = 2
    /\ settings.preallocate = 0
    /\ runs[result.run].chains[1].draw_idx = 1
    /\ \A name \in DOMAIN runs[result.run].chains[1].stats :
           Capacity(runs[result.run].chains[1].stats[name]) = 1
    /\ \A name \in DOMAIN Called.stats : Capacity(Called.stats[name]) = 0

====
